---- MODULE Spec2Model ----
(***************************************************************************)
(* A model of the ThunderBorg protocol controller (src/src/thunder_borg.rs)*)
(* and of the demo session that drives it (src/src/main.rs).               *)
(*                                                                         *)
(* The program is single threaded and every transport call blocks, so the  *)
(* model has one program counter, pc.  Each call of the i2c transport      *)
(* (open, smbus_write_byte, read, write) is one step whose outcome, an     *)
(* error or the bytes read, is chosen by the environment.  ioLog records   *)
(* the transport calls made since the caller's last call.                  *)
(***************************************************************************)
EXTENDS Integers, Sequences, FiniteSets, TLC

VARIABLES pc, life, op, arg, cmd, data, attempt, response, result, ioLog,
          stopFailureLogged, rpc, num_iter, call, ret

vars == <<pc, life, op, arg, cmd, data, attempt, response, result, ioLog,
          stopFailureLogged, rpc, num_iter, call, ret>>

(***************************************************************************)
(* Constants of thunder_borg.rs.                                           *)
(***************************************************************************)
I2C_VALUE_OFF == 0
I2C_COMMAND_NUM_ATTEMPTS == 3
I2C_MAX_LEN == 6
THUNDERBORG_ID == 21
COMMAND_ANALOG_MAX == 1023
\* 36.3 volts, in tenths of a volt
VOLTAGE_PIN_MAX == 363
VOLTAGE_PIN_CORRECTION == 0
\* while num_iter < 2 in run()
RUN_ITERATIONS == 2

(***************************************************************************)
(* Bounds of the model.                                                    *)
(***************************************************************************)
\* finite powers are k/10 for k in -MaxPowerTenths..MaxPowerTenths
MaxPowerTenths == 15

(***************************************************************************)
(* Command and Command::to_wire.                                           *)
(***************************************************************************)
Command == {"SetLed", "GetLed", "SetMotorAForward", "SetMotorAReverse",
            "GetMotorA", "SetMotorBForward", "SetMotorBReverse", "GetMotorB",
            "AllOff", "GetDriveFaultFlagA", "GetDriveFaultFlagB",
            "SetMotorsForward", "SetMotorsReverse", "GetBatteryVoltage",
            "GetId"}

\* a bug: GetMotorB given the opcode of the line above it
to_wire_repeated(c) ==
    CASE c = "SetLed" -> 1
      [] c = "GetLed" -> 2
      [] c = "SetMotorAForward" -> 8
      [] c = "SetMotorAReverse" -> 9
      [] c = "GetMotorA" -> 10
      [] c = "SetMotorBForward" -> 11
      [] c = "SetMotorBReverse" -> 12
      [] c = "GetMotorB" -> 12
      [] c = "AllOff" -> 14
      [] c = "GetDriveFaultFlagA" -> 15
      [] c = "GetDriveFaultFlagB" -> 16
      [] c = "SetMotorsForward" -> 17
      [] c = "SetMotorsReverse" -> 18
      [] c = "GetBatteryVoltage" -> 21
      [] c = "GetId" -> 153

to_wire(c) ==
    CASE c = "SetLed" -> 1
      [] c = "GetLed" -> 2
      [] c = "SetMotorAForward" -> 8
      [] c = "SetMotorAReverse" -> 9
      [] c = "GetMotorA" -> 10
      [] c = "SetMotorBForward" -> 11
      [] c = "SetMotorBReverse" -> 12
      [] c = "GetMotorB" -> 13
      [] c = "AllOff" -> 14
      [] c = "GetDriveFaultFlagA" -> 15
      [] c = "GetDriveFaultFlagB" -> 16
      [] c = "SetMotorsForward" -> 17
      [] c = "SetMotorsReverse" -> 18
      [] c = "GetBatteryVoltage" -> 21
      [] c = "GetId" -> 153

(***************************************************************************)
(* f32 powers.  A finite power is num tenths; the other classes are the    *)
(* values of f32 that compare differently: negative zero, the infinities   *)
(* and not-a-number.  For every multiple of 0.1 in [-1, 1] the f32 product *)
(* value.abs() * 255.0 truncates to the same byte as the exact product.    *)
(***************************************************************************)
Fin(n) == [cls |-> "fin", num |-> n]
NegZero == [cls |-> "negzero", num |-> 0]
NaN == [cls |-> "nan", num |-> 0]
PosInf == [cls |-> "posinf", num |-> 0]
NegInf == [cls |-> "neginf", num |-> 0]
One == Fin(10)
MinusOne == Fin(-10)

Powers == {Fin(n) : n \in -MaxPowerTenths..MaxPowerTenths}
              \cup {NegZero, NaN, PosInf, NegInf}

\* value > 1.0
GtOne(v) == v.cls = "posinf" \/ (v.cls = "fin" /\ v.num > One.num)
\* value < -1.0
LtMinusOne(v) == v.cls = "neginf" \/ (v.cls = "fin" /\ v.num < MinusOne.num)
\* value < 0.0
LtZero(v) == v.cls = "neginf" \/ (v.cls = "fin" /\ v.num < 0)
\* -1.0 <= value && value <= 1.0
InUnitRange(v) ==
    \/ v.cls = "negzero"
    \/ v.cls = "fin" /\ MinusOne.num <= v.num /\ v.num <= One.num

Abs(n) == IF n < 0 THEN -n ELSE n

clamp_motor_power(value) ==
    IF GtOne(value) THEN One
    ELSE IF LtMinusOne(value) THEN MinusOne
    ELSE value

\* a bug: .abs() left out; `as u8` takes a negative product to 0
motor_power_to_byte_signed(value) ==
    IF value.num < 0 THEN 0 ELSE (value.num * 255) \div One.num

\* (value.abs() * 255.0) as u8, for a value that passed the assertion
motor_power_to_byte(value) == (Abs(value.num) * 255) \div One.num

(***************************************************************************)
(* Bytes the environment and the caller draw from.                         *)
(***************************************************************************)
\* byte 0 of a frame read: the four opcodes that are exchanged, each a wrong
\* echo for the other three commands
EchoSamples == {to_wire("GetDriveFaultFlagA"), to_wire("GetDriveFaultFlagB"),
                to_wire("GetBatteryVoltage"), to_wire("GetId")}
\* byte 1: off, a non-zero flag / high byte 0x03, the board id, the largest
\* byte
Payload1Samples == {I2C_VALUE_OFF, 3, THUNDERBORG_ID, 255}
\* byte 2: low byte of the raw voltage
Payload2Samples == {0, 255}
\* the frames a read can fill the 6-byte buffer with
Frames == {<<b0, b1, b2, 0, 0, 0>> :
              b0 \in EchoSamples, b1 \in Payload1Samples, b2 \in Payload2Samples}
\* red, green, blue of set_led
LedSamples == {0, 255}

(***************************************************************************)
(* Results as the caller sees them.  val is 0/1 for a fault flag and the   *)
(* voltage in units of 1/(10 * COMMAND_ANALOG_MAX) volt for the battery.   *)
(***************************************************************************)
NoResult == [kind |-> "none", val |-> 0]
Ok(v) == [kind |-> "ok", val |-> v]
\* Err of the transport (the i2cdev error converted by `?`)
IoError == [kind |-> "io", val |-> 0]
\* Err(ControllerError::CommandError)
CommandError == [kind |-> "command_error", val |-> 0]
\* panic!("Found chip with different id") and the failed assert!
Panic == [kind |-> "panic", val |-> 0]

Write(o, bytes, ok) == [op |-> o, kind |-> "write", bytes |-> bytes, ok |-> ok]
Read(o, bytes, ok) == [op |-> o, kind |-> "read", bytes |-> bytes, ok |-> ok]

Min(a, b) == IF a < b THEN a ELSE b

\* ArrayVec::<[u8; I2C_MAX_LEN]>: push the opcode, extend with the data;
\* extend stops at the capacity
command_bytes(c, d) ==
    LET all == <<to_wire(c)>> \o d
    IN  SubSeq(all, 1, Min(Len(all), I2C_MAX_LEN))

\* call and ret hold a direct call of one of the pure functions and what it
\* returned; the controller and the demo session make no such call
NoCall == [f |-> "none", c1 |-> "GetId", c2 |-> "GetId", p |-> Fin(0)]
NoRet == [done |-> FALSE, panicked |-> FALSE, n |-> 0, m |-> 0,
          p |-> Fin(0), q |-> Fin(0)]

Init ==
    /\ pc = "idle"
    /\ life = "none"
    /\ op = "none"
    /\ arg = Fin(0)
    /\ cmd = "GetId"
    /\ data = <<>>
    /\ attempt = 0
    /\ response = <<>>
    /\ result = NoResult
    /\ ioLog = <<>>
    /\ stopFailureLogged = FALSE
    /\ rpc = 0
    /\ num_iter = 0
    /\ call = NoCall
    /\ ret = NoRet

(***************************************************************************)
(* Controller::command_with_response, lines 87-106.                        *)
(***************************************************************************)
\* a bug: the echo test is inverted
EchoMatchesInverted(f, c) == f[1] # to_wire(c)
\* response[0] != wire_command fails, line 97
EchoMatches(f, c) == f[1] = to_wire(c)
\* a bug: a mismatch uses up two attempts
NextAttemptTwice(a) == a - 2
\* attempt -= 1, line 98
NextAttempt(a) == a - 1
\* a bug: the loop test is off by one
LoopContinuesAtZero(a) == a >= 0
\* while attempt > 0, line 89
LoopContinues(a) == a > 0

\* a change of the code: the handshake is made before the Controller is
\* built, so an Err of new leaves nothing to drop
ReturnErrNothingToDrop(e) ==
    /\ result' = e
    /\ pc' = IF op = "new" THEN "gone" ELSE "idle"

\* An Err leaves the typed operation through `?`.  In Controller::new the
\* local `controller` then goes out of scope, which runs its Drop.
ReturnErr(e) ==
    /\ result' = e
    /\ pc' = IF op = "new" THEN "drop" ELSE "idle"

\* a bug: the comparison with I2C_VALUE_OFF is inverted
drive_fault_inverted(f) == IF f[2] = I2C_VALUE_OFF THEN 1 ELSE 0
\* response[1] != I2C_VALUE_OFF, lines 53 and 58
drive_fault(f) == IF f[2] # I2C_VALUE_OFF THEN 1 ELSE 0

\* a bug: the two bytes taken low byte first
raw_voltage_swapped(f) == (((f[3] * 256) % 65536) + f[2]) % 65536
\* ((voltage_bytes[1] as u16) << 8) + (voltage_bytes[2] as u16), line 67
raw_voltage(f) == (((f[2] * 256) % 65536) + f[3]) % 65536

\* raw / COMMAND_ANALOG_MAX * VOLTAGE_PIN_MAX + VOLTAGE_PIN_CORRECTION, as the
\* numerator over 10 * COMMAND_ANALOG_MAX
battery_voltage(f) ==
    raw_voltage(f) * VOLTAGE_PIN_MAX
        + VOLTAGE_PIN_CORRECTION * 10 * COMMAND_ANALOG_MAX

\* What the typed operation does with the frame the exchange returned.
Interpret(f) ==
    CASE op = "new" ->
            IF f[2] = THUNDERBORG_ID
            THEN /\ life' = "ready"
                 /\ result' = Ok(0)
                 /\ pc' = "idle"
            ELSE /\ life' = life
                 /\ result' = Panic
                 /\ pc' = "drop"
      [] op \in {"get_drive_fault_a", "get_drive_fault_b"} ->
            /\ life' = life
            /\ result' = Ok(drive_fault(f))
            /\ pc' = "idle"
      [] op = "get_battery_voltage" ->
            /\ life' = life
            /\ result' = Ok(battery_voltage(f))
            /\ pc' = "idle"

\* a bug: the result of the write is not looked at
XWriteUnchecked ==
    /\ pc = "xw"
    /\ \E ok \in BOOLEAN :
         /\ ioLog' = Append(ioLog, Write(op, <<to_wire(cmd)>>, ok))
         /\ pc' = "xr"
    /\ UNCHANGED <<life, op, arg, cmd, data, attempt, response, result,
                   stopFailureLogged, rpc, num_iter, call, ret>>

\* self.dev.smbus_write_byte(wire_command)?, line 92
XWrite ==
    /\ pc = "xw"
    /\ \E ok \in BOOLEAN :
         /\ ioLog' = Append(ioLog, Write(op, <<to_wire(cmd)>>, ok))
         /\ IF ok
            THEN pc' = "xr" /\ result' = result
            ELSE ReturnErr(IoError)
    /\ UNCHANGED <<life, op, arg, cmd, data, attempt, response,
                   stopFailureLogged, rpc, num_iter, call, ret>>

\* self.dev.read(&mut response)? and the echo test, lines 94-102, then the
\* loop test and the error of lines 104-105
XRead ==
    /\ pc = "xr"
    /\ \/ /\ ioLog' = Append(ioLog, Read(op, <<>>, FALSE))
          /\ ReturnErr(IoError)
          /\ UNCHANGED <<life, attempt, response>>
       \/ \E f \in Frames :
            /\ ioLog' = Append(ioLog, Read(op, f, TRUE))
            /\ IF ~EchoMatches(f, cmd)
               THEN /\ attempt' = NextAttempt(attempt)
                    /\ IF LoopContinues(attempt')
                       THEN pc' = "xw" /\ result' = result
                       ELSE ReturnErr(CommandError)
                    /\ UNCHANGED <<life, response>>
               ELSE /\ response' = f
                    /\ attempt' = attempt
                    /\ Interpret(f)
    /\ UNCHANGED <<op, arg, cmd, data, stopFailureLogged, rpc, num_iter, call, ret>>

(***************************************************************************)
(* Controller::command, lines 108-115, and what its callers do with the    *)
(* result: the typed operations return it, Drop::drop logs an Err.         *)
(***************************************************************************)
\* a bug: drop returns the Err of stop() to whoever dropped the controller
CWritePropagating ==
    /\ pc = "cw"
    /\ \E ok \in BOOLEAN :
         /\ ioLog' = Append(ioLog, Write(op, command_bytes(cmd, data), ok))
         /\ IF op = "drop"
            THEN /\ stopFailureLogged' = ~ok
                 /\ result' = IF ok THEN result ELSE IoError
                 /\ life' = IF life = "ready" THEN "dropped" ELSE "failed"
                 /\ pc' = "gone"
            ELSE /\ stopFailureLogged' = stopFailureLogged
                 /\ result' = IF ok THEN Ok(0) ELSE IoError
                 /\ life' = life
                 /\ pc' = "idle"
    /\ UNCHANGED <<op, arg, cmd, data, attempt, response, rpc, num_iter, call, ret>>

CWrite ==
    /\ pc = "cw"
    /\ \E ok \in BOOLEAN :
         /\ ioLog' = Append(ioLog, Write(op, command_bytes(cmd, data), ok))
         /\ IF op = "drop"
            THEN /\ stopFailureLogged' = ~ok
                 /\ result' = result
                 /\ life' = IF life = "ready" THEN "dropped" ELSE "failed"
                 /\ pc' = "gone"
            ELSE /\ stopFailureLogged' = stopFailureLogged
                 /\ result' = IF ok THEN Ok(0) ELSE IoError
                 /\ life' = life
                 /\ pc' = "idle"
    /\ UNCHANGED <<op, arg, cmd, data, attempt, response, rpc, num_iter, call, ret>>

(***************************************************************************)
(* impl Drop for Controller, lines 118-129: drop calls self.stop().        *)
(***************************************************************************)
\* a bug: drop does not call stop()
DropWithoutStop ==
    /\ pc = "drop"
    /\ op' = "drop"
    /\ life' = IF life = "ready" THEN "dropped" ELSE "failed"
    /\ pc' = "gone"
    /\ UNCHANGED <<arg, cmd, data, attempt, response, result, ioLog,
                   stopFailureLogged, rpc, num_iter, call, ret>>

Drop ==
    /\ pc = "drop"
    /\ op' = "drop"
    /\ cmd' = "AllOff"
    /\ data' = <<0>>
    /\ pc' = "cw"
    /\ UNCHANGED <<life, arg, attempt, response, result, ioLog,
                   stopFailureLogged, rpc, num_iter, call, ret>>

(***************************************************************************)
(* The typed operations, lines 17-69, as the part of a call that runs up   *)
(* to its first transport call.  They leave rpc and num_iter to the caller.*)
(***************************************************************************)
\* a bug: the attempts left are kept in the Controller, set once by new
BeginExchangeCarrying(o, c) ==
    /\ op' = o
    /\ cmd' = c
    /\ data' = <<>>
    /\ attempt' = IF o = "new" THEN I2C_COMMAND_NUM_ATTEMPTS ELSE attempt
    /\ response' = <<>>
    /\ result' = NoResult
    /\ ioLog' = <<>>
    /\ pc' = "xw"

BeginExchange(o, c) ==
    /\ op' = o
    /\ cmd' = c
    /\ data' = <<>>
    /\ attempt' = I2C_COMMAND_NUM_ATTEMPTS
    /\ response' = <<>>
    /\ result' = NoResult
    /\ ioLog' = <<>>
    /\ pc' = "xw"

BeginCommand(o, c, d) ==
    /\ op' = o
    /\ cmd' = c
    /\ data' = d
    /\ attempt' = 0
    /\ response' = <<>>
    /\ result' = NoResult
    /\ ioLog' = <<>>
    /\ pc' = "cw"

\* Err(...) of LinuxI2CDevice::new, line 23
OpenError == [kind |-> "open", val |-> 0]

new ==
    /\ pc = "idle"
    /\ life = "none"
    /\ \E opened \in BOOLEAN :
         IF opened
         THEN /\ life' = "uninit"
              /\ BeginExchange("new", "GetId")
         ELSE /\ life' = "failed"
              /\ op' = "new"
              /\ result' = OpenError
              /\ pc' = "gone"
              /\ UNCHANGED <<cmd, data, attempt, response, ioLog>>
    /\ arg' = Fin(0)
    /\ UNCHANGED stopFailureLogged

Ready == pc = "idle" /\ life = "ready"

set_led(red, green, blue) ==
    /\ Ready
    /\ BeginCommand("set_led", "SetLed", <<red, green, blue>>)
    /\ arg' = Fin(0)
    /\ UNCHANGED <<life, stopFailureLogged>>

\* power < 0.0 selects the reverse command, line 79
ReverseSelected(power) == LtZero(power)

motor_command(o, forward_command, reverse_command, value) ==
    LET power == clamp_motor_power(value)
    IN  /\ Ready
        /\ arg' = value
        /\ IF ~InUnitRange(power)
           THEN \* the assert! of motor_power_to_byte fails: the panic unwinds
                \* through the caller, whose controller is dropped
                /\ op' = o
                /\ result' = Panic
                /\ pc' = "drop"
                /\ attempt' = 0
                /\ response' = <<>>
                /\ ioLog' = <<>>
                /\ UNCHANGED <<cmd, data>>
           ELSE BeginCommand(o,
                             IF ReverseSelected(power) THEN reverse_command
                                                       ELSE forward_command,
                             <<motor_power_to_byte(power)>>)
        /\ UNCHANGED <<life, stopFailureLogged>>

set_motors(power) ==
    motor_command("set_motors", "SetMotorsForward", "SetMotorsReverse", power)

set_motor_a(power) ==
    motor_command("set_motor_a", "SetMotorAForward", "SetMotorAReverse", power)

set_motor_b(power) ==
    motor_command("set_motor_b", "SetMotorBForward", "SetMotorBReverse", power)

get_drive_fault_a ==
    /\ Ready
    /\ BeginExchange("get_drive_fault_a", "GetDriveFaultFlagA")
    /\ arg' = Fin(0)
    /\ UNCHANGED <<life, stopFailureLogged>>

get_drive_fault_b ==
    /\ Ready
    /\ BeginExchange("get_drive_fault_b", "GetDriveFaultFlagB")
    /\ arg' = Fin(0)
    /\ UNCHANGED <<life, stopFailureLogged>>

get_battery_voltage ==
    /\ Ready
    /\ BeginExchange("get_battery_voltage", "GetBatteryVoltage")
    /\ arg' = Fin(0)
    /\ UNCHANGED <<life, stopFailureLogged>>

stop ==
    /\ Ready
    /\ BeginCommand("stop", "AllOff", <<0>>)
    /\ arg' = Fin(0)
    /\ UNCHANGED <<life, stopFailureLogged>>

(***************************************************************************)
(* Spec: any caller of the library.  It creates a Controller, calls the    *)
(* public operations in any order with any arguments, whatever they        *)
(* returned, and at some point lets the Controller go out of scope.        *)
(***************************************************************************)
CallNew == new /\ UNCHANGED <<rpc, num_iter, call, ret>>
CallSetLed ==
    /\ \E r \in LedSamples, g \in LedSamples, b \in LedSamples : set_led(r, g, b)
    /\ UNCHANGED <<rpc, num_iter, call, ret>>
CallSetMotors ==
    /\ \E p \in Powers : set_motors(p)
    /\ UNCHANGED <<rpc, num_iter, call, ret>>
CallSetMotorA ==
    /\ \E p \in Powers : set_motor_a(p)
    /\ UNCHANGED <<rpc, num_iter, call, ret>>
CallSetMotorB ==
    /\ \E p \in Powers : set_motor_b(p)
    /\ UNCHANGED <<rpc, num_iter, call, ret>>
CallGetDriveFaultA == get_drive_fault_a /\ UNCHANGED <<rpc, num_iter, call, ret>>
CallGetDriveFaultB == get_drive_fault_b /\ UNCHANGED <<rpc, num_iter, call, ret>>
CallGetBatteryVoltage == get_battery_voltage /\ UNCHANGED <<rpc, num_iter, call, ret>>
CallStop == stop /\ UNCHANGED <<rpc, num_iter, call, ret>>
\* the caller's Controller goes out of scope
CallDrop ==
    /\ Ready
    /\ pc' = "drop"
    /\ UNCHANGED <<life, op, arg, cmd, data, attempt, response, result, ioLog,
                   stopFailureLogged, rpc, num_iter, call, ret>>

Next ==
    \/ CallNew
    \/ CallSetLed
    \/ CallSetMotors
    \/ CallSetMotorA
    \/ CallSetMotorB
    \/ CallGetDriveFaultA
    \/ CallGetDriveFaultB
    \/ CallGetBatteryVoltage
    \/ CallStop
    \/ CallDrop
    \/ XWrite
    \/ XRead
    \/ CWrite
    \/ Drop

Spec == Init /\ [][Next]_vars

(***************************************************************************)
(* SpecRun: the demo session, main.rs.  rpc is the position in run():      *)
(* 0 before Controller::new, 1..14 the calls of the loop body in order,    *)
(* 15 the loop test and the controller.stop() after the loop, 16 Ok(()).   *)
(***************************************************************************)
RunCall(f, power) == [f |-> f, power |-> power]

RunBody ==
    << RunCall("set_motors", Fin(1)),
       RunCall("get_drive_fault_a", Fin(0)),
       RunCall("get_drive_fault_b", Fin(0)),
       RunCall("get_battery_voltage", Fin(0)),
       RunCall("set_motors", Fin(8)),
       RunCall("set_motors", Fin(1)),
       RunCall("set_motors", Fin(0)),
       RunCall("set_motors", Fin(-1)),
       RunCall("set_motors", Fin(-8)),
       RunCall("set_motors", Fin(-1)),
       RunCall("set_motors", Fin(0)),
       RunCall("get_drive_fault_a", Fin(0)),
       RunCall("get_drive_fault_b", Fin(0)),
       RunCall("get_battery_voltage", Fin(0)) >>

\* the position after the loop test `while num_iter < 2`
RunPos == IF rpc = 15 /\ num_iter < RUN_ITERATIONS THEN 1 ELSE rpc

\* the previous call returned Ok, so `?` lets run() go on
RunGoesOn == Ready /\ result.kind = "ok"

\* on to the next call; num_iter += 1 stands before the call at position 12
RunAdvance ==
    /\ rpc' = RunPos + 1
    /\ num_iter' = IF RunPos = 12 THEN num_iter + 1 ELSE num_iter
    /\ UNCHANGED <<call, ret>>

RunNew ==
    /\ rpc = 0
    /\ new
    /\ rpc' = 1
    /\ num_iter' = 0
    /\ UNCHANGED <<call, ret>>

RunSetMotors ==
    /\ RunGoesOn
    /\ RunPos \in 1..14
    /\ RunBody[RunPos].f = "set_motors"
    /\ set_motors(RunBody[RunPos].power)
    /\ RunAdvance

RunGetDriveFaultA ==
    /\ RunGoesOn
    /\ RunPos \in 1..14
    /\ RunBody[RunPos].f = "get_drive_fault_a"
    /\ get_drive_fault_a
    /\ RunAdvance

RunGetDriveFaultB ==
    /\ RunGoesOn
    /\ RunPos \in 1..14
    /\ RunBody[RunPos].f = "get_drive_fault_b"
    /\ get_drive_fault_b
    /\ RunAdvance

RunGetBatteryVoltage ==
    /\ RunGoesOn
    /\ RunPos \in 1..14
    /\ RunBody[RunPos].f = "get_battery_voltage"
    /\ get_battery_voltage
    /\ RunAdvance

RunStop ==
    /\ RunGoesOn
    /\ RunPos = 15
    /\ stop
    /\ rpc' = 16
    /\ num_iter' = num_iter
    /\ UNCHANGED <<call, ret>>

\* Ok(()) at the end of run(): `controller` goes out of scope
RunReturnOk ==
    /\ RunGoesOn
    /\ rpc = 16
    /\ pc' = "drop"
    /\ UNCHANGED <<life, op, arg, cmd, data, attempt, response, result, ioLog,
                   stopFailureLogged, rpc, num_iter, call, ret>>

\* a bug: run() ends the process itself on an Err, while it holds `controller`
RunExitOnErr ==
    /\ Ready
    /\ result.kind \in {"io", "command_error"}
    /\ pc' = "exited"
    /\ UNCHANGED <<life, op, arg, cmd, data, attempt, response, result, ioLog,
                   stopFailureLogged, rpc, num_iter, call, ret>>

\* `?` on an Err: run() returns early and `controller` goes out of scope
RunReturnErr ==
    /\ Ready
    /\ result.kind \in {"io", "command_error"}
    /\ pc' = "drop"
    /\ UNCHANGED <<life, op, arg, cmd, data, attempt, response, result, ioLog,
                   stopFailureLogged, rpc, num_iter, call, ret>>

\* main after run(): the process ends (normally, by process::exit(1) in
\* exit_with_error, or by the panic)
MainExit ==
    /\ pc = "gone"
    /\ pc' = "exited"
    /\ UNCHANGED <<life, op, arg, cmd, data, attempt, response, result, ioLog,
                   stopFailureLogged, rpc, num_iter, call, ret>>

RunNext ==
    \/ RunNew
    \/ RunSetMotors
    \/ RunGetDriveFaultA
    \/ RunGetDriveFaultB
    \/ RunGetBatteryVoltage
    \/ RunStop
    \/ RunReturnOk
    \/ RunReturnErr
    \/ MainExit
    \/ XWrite
    \/ XRead
    \/ CWrite
    \/ Drop

SpecRun == Init /\ [][RunNext]_vars

(***************************************************************************)
(* SpecPure: the pure functions of thunder_borg.rs called directly, each   *)
(* on every input of a bounded set: Command::to_wire on every pair of      *)
(* commands, clamp_motor_power and motor_power_to_byte on every power.     *)
(***************************************************************************)
\* -value
Neg(v) ==
    CASE v.cls = "fin" -> (IF v.num = 0 THEN NegZero ELSE Fin(-v.num))
      [] v.cls = "negzero" -> Fin(0)
      [] v.cls = "nan" -> NaN
      [] v.cls = "posinf" -> NegInf
      [] v.cls = "neginf" -> PosInf

PureCalls ==
    {[f |-> "to_wire", c1 |-> a, c2 |-> b, p |-> Fin(0)] :
        a \in Command, b \in Command}
    \cup {[f |-> g, c1 |-> "GetId", c2 |-> "GetId", p |-> v] :
              g \in {"clamp_motor_power", "motor_power_to_byte"}, v \in Powers}

InitPure ==
    /\ pc = "idle"
    /\ life = "none"
    /\ op = "none"
    /\ arg = Fin(0)
    /\ cmd = "GetId"
    /\ data = <<>>
    /\ attempt = 0
    /\ response = <<>>
    /\ result = NoResult
    /\ ioLog = <<>>
    /\ stopFailureLogged = FALSE
    /\ rpc = 0
    /\ num_iter = 0
    /\ call \in PureCalls
    /\ ret = NoRet

Returned(n, m, v, w) ==
    [done |-> TRUE, panicked |-> FALSE, n |-> n, m |-> m, p |-> v, q |-> w]

\* to_wire of both commands of the pair
ApplyToWire ==
    /\ call.f = "to_wire"
    /\ ~ret.done
    /\ ret' = Returned(to_wire(call.c1), to_wire(call.c2), Fin(0), Fin(0))
    /\ UNCHANGED <<pc, life, op, arg, cmd, data, attempt, response, result,
                   ioLog, stopFailureLogged, rpc, num_iter, call>>

\* clamp_motor_power of the power, and of what it returned
ApplyClamp ==
    /\ call.f = "clamp_motor_power"
    /\ ~ret.done
    /\ ret' = Returned(0, 0, clamp_motor_power(call.p),
                       clamp_motor_power(clamp_motor_power(call.p)))
    /\ UNCHANGED <<pc, life, op, arg, cmd, data, attempt, response, result,
                   ioLog, stopFailureLogged, rpc, num_iter, call>>

\* motor_power_to_byte of the power and of its negation; the assert! of
\* line 228 panics on a power outside [-1.0, 1.0]
ApplyMotorPowerToByte ==
    /\ call.f = "motor_power_to_byte"
    /\ ~ret.done
    /\ ret' = IF InUnitRange(call.p)
              THEN Returned(motor_power_to_byte(call.p),
                            motor_power_to_byte(Neg(call.p)), Fin(0), Fin(0))
              ELSE [NoRet EXCEPT !.done = TRUE, !.panicked = TRUE]
    /\ UNCHANGED <<pc, life, op, arg, cmd, data, attempt, response, result,
                   ioLog, stopFailureLogged, rpc, num_iter, call>>

PureNext ==
    \/ ApplyToWire
    \/ ApplyClamp
    \/ ApplyMotorPowerToByte

SpecPure == InitPure /\ [][PureNext]_vars

TypeOK ==
    /\ pc \in {"idle", "xw", "xr", "cw", "drop", "gone", "exited"}
    /\ life \in {"none", "uninit", "ready", "dropped", "failed"}
    /\ arg \in Powers
    /\ cmd \in Command
    /\ attempt \in 0..I2C_COMMAND_NUM_ATTEMPTS
    /\ rpc \in 0..16
    /\ num_iter \in 0..RUN_ITERATIONS

(***************************************************************************)
(* Vocabulary of the properties.                                           *)
(***************************************************************************)
Last(s) == s[Len(s)]

\* the transport calls of the typed operation, and those of the teardown
OpLog == SelectSeq(ioLog, LAMBDA e : e.op # "drop")
DropLog == SelectSeq(ioLog, LAMBDA e : e.op = "drop")

\* the typed operation the log belongs to
LogOp == IF OpLog = <<>> THEN "none" ELSE OpLog[1].op

ExchangeOps == {"new", "get_drive_fault_a", "get_drive_fault_b",
                "get_battery_voltage"}
MotorOps == {"set_motors", "set_motor_a", "set_motor_b"}

\* the opcode each exchanging operation is to write, section 4.2 of the spec
ExpectedOpcode(o) ==
    CASE o = "new" -> 153
      [] o = "get_drive_fault_a" -> 15
      [] o = "get_drive_fault_b" -> 16
      [] o = "get_battery_voltage" -> 21

\* the exchange primitive is not running
ExchangeOver == pc \notin {"xw", "xr"}

AllOk(log) == \A i \in 1..Len(log) : log[i].ok

\* the reads of the log that returned a frame with a wrong byte 0
Mismatches(log, opcode) ==
    {i \in 1..Len(log) :
        log[i].kind = "read" /\ log[i].ok /\ log[i].bytes[1] # opcode}

\* the log is n write/read cycles: a write of the single opcode byte, then a
\* read of a 6-byte frame, all without transport error
IsCycles(log, opcode, n) ==
    /\ Len(log) = 2 * n
    /\ \A i \in 1..n :
          /\ log[2 * i - 1].kind = "write"
          /\ log[2 * i - 1].bytes = <<opcode>>
          /\ log[2 * i - 1].ok
          /\ log[2 * i].kind = "read"
          /\ log[2 * i].ok
          /\ Len(log[2 * i].bytes) = 6

(***************************************************************************)
(* C1.  When no transport call fails and no frame read has the command's   *)
(* opcode in byte 0, the exchange ends with the echo-mismatch error after  *)
(* exactly 3 write/read cycles; the error is never returned after fewer,   *)
(* and an exchange never makes a 4th write or read.                        *)
(***************************************************************************)
C1_MismatchFailsAfterThreeCycles ==
    LogOp \in ExchangeOps =>
        LET opcode == ExpectedOpcode(LogOp)
            reads == {i \in 1..Len(OpLog) : OpLog[i].kind = "read"}
        IN  /\ Len(OpLog) <= 2 * 3
            /\ (/\ ExchangeOver
                /\ AllOk(OpLog)
                /\ Mismatches(OpLog, opcode) = reads)
                  => /\ result = CommandError
                     /\ IsCycles(OpLog, opcode, 3)
            /\ (ExchangeOver /\ result = CommandError)
                  => /\ IsCycles(OpLog, opcode, 3)
                     /\ Mismatches(OpLog, opcode) = reads

\* an exchange of GetBatteryVoltage gave up after three mismatching frames
C1_Witness ==
    /\ pc = "idle"
    /\ LogOp = "get_battery_voltage"
    /\ result = CommandError
    /\ Len(OpLog) = 6

(***************************************************************************)
(* C2.  An exchange returns a frame exactly when, after k = 0, 1 or 2      *)
(* frames with a wrong byte 0, frame k+1 echoes the opcode: the frame      *)
(* returned is frame k+1 and the exchange made exactly k+1 cycles, each a  *)
(* write of the single opcode byte followed by a read of a 6-byte frame.   *)
(***************************************************************************)
C2_SucceedsAtFirstEcho ==
    (LogOp \in ExchangeOps /\ ExchangeOver) =>
        LET opcode == ExpectedOpcode(LogOp)
            n == Len(OpLog) \div 2
            echoed == /\ AllOk(OpLog)
                      /\ Len(OpLog) > 0
                      /\ Last(OpLog).kind = "read"
                      /\ Last(OpLog).bytes[1] = opcode
        IN  /\ echoed <=> response # <<>>
            /\ echoed =>
                  /\ n \in 1..3
                  /\ IsCycles(OpLog, opcode, n)
                  /\ Mismatches(OpLog, opcode) = {2 * i : i \in 1..(n - 1)}
                  /\ response = OpLog[2 * n].bytes

\* wrong, wrong, correct: the exchange returned the third frame
C2_Witness ==
    /\ pc = "idle"
    /\ LogOp = "get_drive_fault_a"
    /\ response # <<>>
    /\ Len(OpLog) = 6
    /\ Cardinality(Mismatches(OpLog, 15)) = 2

(***************************************************************************)
(* C3.  A frame is returned by the exchange and interpreted only if its    *)
(* byte 0 is the opcode written; the value the caller gets is a function   *)
(* of that frame alone, and when every frame was discarded the caller gets *)
(* an error and no value.                                                  *)
(***************************************************************************)
C3_OnlyEchoedFrameInterpreted ==
    (LogOp \in ExchangeOps /\ ExchangeOver) =>
        IF response # <<>>
        THEN /\ response[1] = ExpectedOpcode(LogOp)
             /\ response[1] = OpLog[1].bytes[1]
             /\ response = Last(OpLog).bytes
             /\ LogOp = "new" =>
                   IF response[2] = 21
                   THEN result = Ok(0) /\ life \in {"ready", "dropped"}
                   ELSE result = Panic /\ life \in {"uninit", "failed"}
             /\ LogOp \in {"get_drive_fault_a", "get_drive_fault_b"} =>
                   result = Ok(IF response[2] = 0 THEN 0 ELSE 1)
             /\ LogOp = "get_battery_voltage" =>
                   result = Ok((response[2] * 256 + response[3]) * 363)
        ELSE /\ result \in {IoError, CommandError}
             /\ LogOp = "new" => life \in {"uninit", "failed"}

\* a battery query discarded a frame carrying 0x03 0xFF and returned the
\* voltage of the echoed frame that followed
C3_Witness ==
    /\ pc = "idle"
    /\ LogOp = "get_battery_voltage"
    /\ Len(OpLog) = 4
    /\ OpLog[2].bytes = <<15, 3, 255, 0, 0, 0>>
    /\ response = <<21, 0, 0, 0, 0, 0>>
    /\ result = Ok(0)

(***************************************************************************)
(* C4.  Once a Controller has been dropped, its teardown has made exactly  *)
(* one transport call, a write of the AllOff frame [0x0E, 0x00], whatever  *)
(* operations came before and whether the last of them returned Ok, an     *)
(* Err or panicked; the teardown never makes a second call.                *)
(***************************************************************************)
C4_OneAllOffAtTeardown ==
    /\ Len(DropLog) <= 1
    /\ (pc \in {"gone", "exited"} /\ result # OpenError) =>
          /\ life \in {"dropped", "failed"}
          /\ Len(DropLog) = 1
          /\ DropLog[1].kind = "write"
          /\ DropLog[1].bytes = <<14, 0>>
          /\ Last(ioLog) = DropLog[1]

\* a controller was dropped right after an operation of its failed
C4_Witness ==
    /\ pc = "gone"
    /\ life = "dropped"
    /\ result = IoError
    /\ Len(OpLog) = 3
    /\ Len(DropLog) = 1

(***************************************************************************)
(* C5.  When the write of the teardown's stop() fails, the teardown ends   *)
(* at once and normally: the failure is logged, the result the caller has  *)
(* is left as it was, and no transport call follows.                       *)
(***************************************************************************)
C5_TeardownFailureSwallowed ==
    [][/\ (/\ op = "drop"
           /\ pc = "cw"
           /\ Len(ioLog') = Len(ioLog) + 1
           /\ ~Last(ioLog').ok)
          => /\ pc' = "gone"
             /\ stopFailureLogged'
             /\ result' = result
             /\ life' \in {"dropped", "failed"}
       /\ pc \in {"gone", "exited"} => ioLog' = ioLog]_vars

\* the stop() of a teardown failed after an operation that had returned Ok
C5_Witness ==
    /\ pc = "gone"
    /\ stopFailureLogged
    /\ ~Last(ioLog).ok
    /\ result.kind = "ok"

(***************************************************************************)
(* C6.  When the GetId frame echoes the opcode and carries an identifier   *)
(* other than 0x15, Controller::new returns the error UnexpectedDevice to  *)
(* its caller and yields no usable Controller.                             *)
(***************************************************************************)
C6_UnexpectedDeviceReturned ==
    (/\ LogOp = "new"
     /\ ExchangeOver
     /\ response # <<>>
     /\ response[2] # 21)
        => /\ result.kind = "unexpected_device"
           /\ life \in {"uninit", "failed"}

(***************************************************************************)
(* C7.  A transport call that fails is the last call of its operation: no  *)
(* read follows a failed write, no retry follows a failed write or read,   *)
(* and the operation returns the transport's error.  Only a frame with a   *)
(* wrong byte 0 uses up one of the 3 attempts.                             *)
(***************************************************************************)
C7_TransportFailureNotRetried ==
    /\ \A i \in 1..Len(OpLog) : ~OpLog[i].ok => i = Len(OpLog)
    /\ \A i \in 1..Len(DropLog) : ~DropLog[i].ok => i = Len(DropLog)
    /\ (OpLog # <<>> /\ ~Last(OpLog).ok) =>
          /\ result = IoError
          /\ pc \notin {"xw", "xr"}
          /\ ~(pc = "cw" /\ op # "drop")
    /\ pc \in {"xw", "xr"} =>
          /\ LogOp \in {"none"} \cup ExchangeOps
          /\ attempt = 3 - Cardinality(Mismatches(OpLog, to_wire(cmd)))

\* the write of the second attempt failed, after one frame with a wrong echo
C7_Witness ==
    /\ pc = "idle"
    /\ LogOp \in ExchangeOps
    /\ Len(OpLog) = 3
    /\ ~OpLog[3].ok
    /\ result = IoError

(***************************************************************************)
(* C8.  On a controller whose GetId handshake has not succeeded, the only  *)
(* frames written to the transport are GetId exchanges (the single byte    *)
(* 0x99): no frame of a typed public operation, stop included.             *)
(***************************************************************************)
C8_OnlyGetIdBeforeReady ==
    life \in {"none", "uninit", "failed"} =>
        \A i \in 1..Len(ioLog) :
            ioLog[i].kind = "write" => ioLog[i].bytes = <<153>>

(***************************************************************************)
(* C9.  In every run() in which Controller::new succeeded, the last        *)
(* transport call attempted before the process exits is a write of the     *)
(* AllOff frame, whether run() returned Ok or returned early with an Err.  *)
(***************************************************************************)
C9_AllOffLastBeforeExit ==
    (pc = "exited" /\ life \in {"ready", "dropped"}) =>
        /\ ioLog # <<>>
        /\ Last(ioLog).kind = "write"
        /\ Last(ioLog).bytes = <<14, 0>>

\* run() returned early from the second pass of the loop with the
\* echo-mismatch error of a battery query
C9_Witness ==
    /\ pc = "exited"
    /\ life = "dropped"
    /\ num_iter = 1
    /\ LogOp = "get_battery_voltage"
    /\ result = CommandError

\* the clamped power is >= 0.0
ClampedGeZero(v) ==
    \/ v.cls \in {"negzero", "posinf"}
    \/ v.cls = "fin" /\ v.num >= 0

\* the magnitude of the clamped power, truncated: |p| * 255 for p in tenths
ExpectedMagnitude(v) ==
    IF v.cls \in {"posinf", "neginf"} THEN 255
    ELSE IF v.cls = "fin" THEN
            (IF Abs(v.num) > 10 THEN 255 ELSE (Abs(v.num) * 255) \div 10)
    ELSE 0

ForwardOpcode(o) ==
    CASE o = "set_motors" -> 17 [] o = "set_motor_a" -> 8 [] o = "set_motor_b" -> 11
ReverseOpcode(o) ==
    CASE o = "set_motors" -> 18 [] o = "set_motor_a" -> 9 [] o = "set_motor_b" -> 12

\* the one frame the motor operation o is to write for the power v
ExpectedMotorFrame(o, v) ==
    << IF ClampedGeZero(v) THEN ForwardOpcode(o) ELSE ReverseOpcode(o),
       ExpectedMagnitude(v) >>

(***************************************************************************)
(* C10.  A call of set_motors, set_motor_a or set_motor_b makes exactly    *)
(* one transport call, a write of [opcode, magnitude], with the Forward    *)
(* opcode of that motor when the clamped power is >= 0.0 and the Reverse   *)
(* opcode otherwise; a zero of either sign gives Forward and magnitude 0.  *)
(***************************************************************************)
C10_OneMotorFrame ==
    (op \in MotorOps /\ pc \in {"idle", "drop"}) =>
        /\ Len(ioLog) = 1
        /\ ioLog[1].kind = "write"
        /\ ioLog[1].bytes = ExpectedMotorFrame(op, arg)

\* The statement of C10 for every power that is a number: the infinities,
\* both zeros and the finite powers in and out of [-1, 1].
MotorFrameOfNumbers ==
    (op \in MotorOps /\ pc \in {"idle", "drop"} /\ arg # NaN) =>
        /\ Len(ioLog) = 1
        /\ ioLog[1].kind = "write"
        /\ ioLog[1].bytes = ExpectedMotorFrame(op, arg)

\* set_motor_b(-0.0) wrote the Forward frame with magnitude 0
MotorFrameOfNumbers_Witness ==
    /\ pc = "idle"
    /\ op = "set_motor_b"
    /\ arg = NegZero
    /\ ioLog[1].bytes = <<11, 0>>

\* the opcode table of section 6 of the spec
OpcodeTable(c) ==
    CASE c = "SetLed" -> 1
      [] c = "GetLed" -> 2
      [] c = "SetMotorAForward" -> 8
      [] c = "SetMotorAReverse" -> 9
      [] c = "GetMotorA" -> 10
      [] c = "SetMotorBForward" -> 11
      [] c = "SetMotorBReverse" -> 12
      [] c = "GetMotorB" -> 13
      [] c = "AllOff" -> 14
      [] c = "GetDriveFaultFlagA" -> 15
      [] c = "GetDriveFaultFlagB" -> 16
      [] c = "SetMotorsForward" -> 17
      [] c = "SetMotorsReverse" -> 18
      [] c = "GetBatteryVoltage" -> 21
      [] c = "GetId" -> 153

(***************************************************************************)
(* C11.  There are 15 commands; to_wire gives each of them a byte, the one *)
(* of the spec's opcode table, and gives two different commands two        *)
(* different bytes.                                                        *)
(***************************************************************************)
C11_OpcodesDistinctAsTabled ==
    /\ Cardinality(Command) = 15
    /\ (call.f = "to_wire" /\ ret.done) =>
          /\ ret.n \in 0..255
          /\ ret.n = OpcodeTable(call.c1)
          /\ ret.m = OpcodeTable(call.c2)
          /\ call.c1 # call.c2 => ret.n # ret.m

\* to_wire was applied to GetMotorB and SetMotorBReverse, neighbours in the
\* table
C11_Witness ==
    /\ call.f = "to_wire"
    /\ ret.done
    /\ call.c1 = "GetMotorB"
    /\ call.c2 = "SetMotorBReverse"
    /\ ret.n = 13
    /\ ret.m = 12

\* p is in [-1.0, 1.0]
InClosedUnit(v) ==
    \/ v.cls = "negzero"
    \/ v.cls = "fin" /\ -10 <= v.num /\ v.num <= 10

\* a == b on f32: not-a-number equals nothing, the two zeros are equal
F32Eq(a, b) ==
    /\ a.cls # "nan"
    /\ b.cls # "nan"
    /\ \/ a = b
       \/ {a, b} = {Fin(0), NegZero}

(***************************************************************************)
(* C12.  For every p in [-1.0, 1.0], motor_power_to_byte(p) is |p| * 255   *)
(* truncated, a byte in 0..255, and is the same for p and -p; it is 255    *)
(* for 1.0 and 0 for 0.0.                                                  *)
(***************************************************************************)
C12_MagnitudeTruncatedSymmetric ==
    (call.f = "motor_power_to_byte" /\ ret.done /\ InClosedUnit(call.p)) =>
        /\ ~ret.panicked
        /\ ret.n \in 0..255
        /\ 10 * ret.n <= Abs(call.p.num) * 255
        /\ Abs(call.p.num) * 255 < 10 * (ret.n + 1)
        /\ ret.m = ret.n
        /\ call.p = Fin(10) => ret.n = 255
        /\ call.p = Fin(0) => ret.n = 0

\* motor_power_to_byte(-0.1) and motor_power_to_byte(0.1) are both 25, the
\* truncation of 25.5
C12_Witness ==
    /\ call.f = "motor_power_to_byte"
    /\ ret.done
    /\ call.p = Fin(-1)
    /\ ret.n = 25
    /\ ret.m = 25

(***************************************************************************)
(* C13.  For every power p, clamp_motor_power(p) is in [-1.0, 1.0], and    *)
(* clamping it again gives a value equal to it.                            *)
(***************************************************************************)
C13_ClampInRangeIdempotent ==
    (call.f = "clamp_motor_power" /\ ret.done) =>
        /\ InClosedUnit(ret.p)
        /\ F32Eq(ret.q, ret.p)

\* The statement of C13 for every power that is a number.
ClampOfNumbers ==
    (call.f = "clamp_motor_power" /\ ret.done /\ call.p # NaN) =>
        /\ InClosedUnit(ret.p)
        /\ F32Eq(ret.q, ret.p)

(***************************************************************************)
(* C14.  On a valid GetBatteryVoltage frame, get_battery_voltage takes     *)
(* raw = frame[1] * 256 + frame[2], which fits 16 bits for any two bytes   *)
(* and is (frame[1] << 8) | frame[2], and returns raw / 1023 * 36.3 + 0.0; *)
(* the payload [0x03, 0xFF] gives raw 1023 and 36.3 volts.  The voltage is *)
(* in units of 1/10230 volt.                                               *)
(***************************************************************************)
C14_BatteryVoltage ==
    (LogOp = "get_battery_voltage" /\ ExchangeOver /\ response # <<>>) =>
        LET raw == response[2] * 256 + response[3]
        IN  /\ raw \in 0..65535
            /\ (response[2] * 256) % 256 = 0
            /\ result.kind = "ok"
            /\ result.val = raw * 363 + 0
            /\ (response[2] = 3 /\ response[3] = 255) =>
                  /\ raw = 1023
                  /\ result.val = 363 * 1023

\* the frame [0x15, 0x03, 0xFF, ..] was read and 36.3 volts returned
C14_Witness ==
    /\ pc = "idle"
    /\ LogOp = "get_battery_voltage"
    /\ response = <<21, 3, 255, 0, 0, 0>>
    /\ result = Ok(371349)

(***************************************************************************)
(* C15.  get_drive_fault_a writes only the opcode 0x0F and                 *)
(* get_drive_fault_b only 0x10; on a valid frame each returns false when   *)
(* frame byte 1 is 0x00 and true for every other byte.                     *)
(***************************************************************************)
C15_DriveFault ==
    (LogOp \in {"get_drive_fault_a", "get_drive_fault_b"}) =>
        LET opcode == IF LogOp = "get_drive_fault_a" THEN 15 ELSE 16
        IN  /\ \A i \in 1..Len(OpLog) :
                  OpLog[i].kind = "write" => OpLog[i].bytes = <<opcode>>
            /\ (ExchangeOver /\ response # <<>>) =>
                  /\ response[1] = opcode
                  /\ response[2] = 0 => result = Ok(0)
                  /\ response[2] # 0 => result = Ok(1)

\* get_drive_fault_b returned true on the payload byte 0x03
C15_Witness ==
    /\ pc = "idle"
    /\ LogOp = "get_drive_fault_b"
    /\ response = <<16, 3, 0, 0, 0, 0>>
    /\ result = Ok(1)

WriteOnlyOps == {"set_led", "stop"} \cup MotorOps

\* the frame the write-only operation o is to write
ExpectedFrame(o) ==
    CASE o = "set_led" -> <<1>> \o data
      [] o = "stop" -> <<14, 0>>
      [] o \in MotorOps -> ExpectedMotorFrame(o, arg)

(***************************************************************************)
(* C16.  A call of set_led, set_motors, set_motor_a, set_motor_b or stop   *)
(* makes exactly one transport call, a write and no read, of the opcode    *)
(* followed by the extra bytes in order (set_led: [0x01, r, g, b]; motors: *)
(* 2 bytes; stop: [0x0E, 0x00]), at most 6 bytes, and returns Ok exactly   *)
(* when that write succeeded.                                              *)
(***************************************************************************)
C16_OneWriteNoRead ==
    (op \in WriteOnlyOps /\ pc \in {"idle", "drop"}) =>
        /\ Len(ioLog) = 1
        /\ ioLog[1].kind = "write"
        /\ ioLog[1].bytes = ExpectedFrame(op)
        /\ Len(ioLog[1].bytes) <= 6
        /\ op = "set_led" => Len(ioLog[1].bytes) = 4
        /\ op \in MotorOps => Len(ioLog[1].bytes) = 2
        /\ result = IF ioLog[1].ok THEN Ok(0) ELSE IoError

\* The statement of C16 for every call whose power, if it has one, is a
\* number.
WriteOnlyOfNumbers ==
    (op \in WriteOnlyOps /\ pc \in {"idle", "drop"} /\ arg # NaN) =>
        /\ Len(ioLog) = 1
        /\ ioLog[1].kind = "write"
        /\ ioLog[1].bytes = ExpectedFrame(op)
        /\ Len(ioLog[1].bytes) <= 6
        /\ op = "set_led" => Len(ioLog[1].bytes) = 4
        /\ op \in MotorOps => Len(ioLog[1].bytes) = 2
        /\ result = IF ioLog[1].ok THEN Ok(0) ELSE IoError

(***************************************************************************)
(* C17.  When the transport was opened and the GetId handshake of          *)
(* Controller::new fails, by a transport error, by 3 wrong echoes or by an *)
(* identifier other than 0x15, then by the time new has finished failing   *)
(* the teardown has attempted exactly one write, of the AllOff frame, and  *)
(* it is the last transport call; new never hands a controller to its      *)
(* caller before that.  When opening the transport fails, nothing is       *)
(* written or read.                                                        *)
(***************************************************************************)
C17_TeardownOfFailedInit ==
    /\ pc = "idle" => life \in {"none", "ready"}
    /\ (pc \in {"gone", "exited"} /\ life # "dropped") =>
          IF result = OpenError
          THEN ioLog = <<>>
          ELSE /\ result \in {IoError, CommandError, Panic}
               /\ LogOp = "new"
               /\ Len(DropLog) = 1
               /\ DropLog[1].kind = "write"
               /\ DropLog[1].bytes = <<14, 0>>
               /\ Last(ioLog) = DropLog[1]

\* new gave up after three wrong echoes and the teardown wrote AllOff
C17_Witness ==
    /\ pc = "gone"
    /\ life = "failed"
    /\ result = CommandError
    /\ Len(OpLog) = 6
    /\ Len(DropLog) = 1
    /\ Last(ioLog).bytes = <<14, 0>>

(***************************************************************************)
(* C18.  Every exchange starts with the full budget of 3 attempts and with *)
(* no frame and no transport call remembered, whatever the operations      *)
(* before it did; while it runs, the attempts left are 3 less the frames   *)
(* with a wrong echo read during this call.                                *)
(***************************************************************************)
C18_BudgetPerExchange ==
    [][/\ (pc = "idle" /\ pc' = "xw") =>
             /\ attempt' = 3
             /\ response' = <<>>
             /\ ioLog' = <<>>
       /\ pc' \in {"xw", "xr"} =>
             attempt' = 3 - Cardinality(Mismatches(ioLog', to_wire(cmd')))]_vars

\* on a ready controller, so after the exchange of the handshake,
\* get_drive_fault_b used all 3 attempts and succeeded on the third
C18_Witness ==
    /\ pc = "idle"
    /\ life = "ready"
    /\ LogOp = "get_drive_fault_b"
    /\ IsCycles(OpLog, 16, 3)
    /\ attempt = 1
    /\ response # <<>>

(***************************************************************************)
(* C19.  The range assertion of motor_power_to_byte holds at every call    *)
(* made through set_motors, set_motor_a and set_motor_b, for every power a *)
(* caller can pass: no motor operation panics.                             *)
(***************************************************************************)
C19_RangeAssertionHolds ==
    op \in MotorOps => result # Panic

\* The statement of C19 for every power that is a number.
RangeAssertionOfNumbers ==
    (op \in MotorOps /\ arg # NaN) => result # Panic

====
